---- MODULE Spec2Model ----
(***************************************************************************)
(* Model of the claude-voice streaming pipeline: the two sentence chunkers *)
(* (src/llm/chunker.py, src/llm/chunker_fixed.py), the orchestrator        *)
(* (src/core/pipeline.py), the resilience primitives (src/core/retry.py:   *)
(* retry_async, RateLimiter) and the Whisper STT stage that uses them      *)
(* (src/stt/whisper.py, src/audio/normalize.py).                           *)
(* Text is a sequence of one-character strings.                            *)
(***************************************************************************)
EXTENDS Naturals, Integers, Sequences, FiniteSets, TLC

VARIABLES
    kind,       \* which SentenceChunker class the run uses: "basic" | "fixed"
    minLen,     \* SentenceChunker.min_sentence_length
    text,       \* the whole text the token stream carries
    tokens,     \* tokens of the stream not yet delivered
    buffer,     \* chunk_stream's local buffer
    emitted,    \* sentences yielded by chunk_stream so far, in order
    exhausted,  \* chunk_stream has run past its final yield
    pc,         \* where the process_text / process_audio coroutine is suspended
    mode,       \* "text" (process_text) | "audio" (process_audio) | "none"
    query,      \* the text handed to _process_text_query (<<>> before that)
    sttResult,  \* what stt.transcribe returned: <<"none">> or <<"ok", transcript>>
    llmCalled,  \* llm.query_stream has been called
    events,     \* the observer's event log
    tasks,      \* tts_tasks: [sentence, state], state "running"|"ok"|"failed"|"cancelled"
    gatherResult, \* how the awaited gather future resolved: <<"none">>, <<"ok">>, <<"exc", i>>
    outcome,    \* what the caller of process_* got
    failed,     \* the errors the stages (STT, LLM, TTS tasks) have raised so far
    cancelled,  \* the caller has cancelled the run
    config,     \* retry_async: the RetryConfig in force
    retryable_exceptions, \* retry_async: the exception classes that trigger a retry
    on_retry,   \* retry_async: a retry callback was passed
    rpc,        \* retry_async: "idle" | "call" (awaiting func) | "sleep" | "done"
    attempt,    \* retry_async: the loop variable
    last_exception, \* retry_async: the local of that name (<<>> is None)
    invocations, \* results of the calls of func so far, in order
    retried,    \* arguments of the on_retry calls so far, in order
    sleeps,     \* delays (ms) of the backoff suspensions so far, in order
    routcome,   \* what the caller of retry_async got
    tokens_per_second, \* RateLimiter: refill rate, in 1/Scale tokens per tick
    bucket_size, \* RateLimiter: capacity, in tokens
    ltokens,    \* RateLimiter.tokens, in 1/Scale tokens
    last_update, \* RateLimiter: loop time (ticks) of the last refill
    now,        \* the event loop's clock, in ticks since the limiter was created
    locked,     \* RateLimiter._lock is held
    waiters,    \* RateLimiter._lock: the callers queued on it, oldest first
    lpc,        \* per caller of acquire: "idle"|"waiting"|"woken"|"sleeping"|"done"
    lneed,      \* per caller: the tokens argument of its acquire call
    lwake,      \* per caller: the tick its asyncio.sleep(wait_time) ends
    granted,    \* tokens handed out by acquire so far
    writer,     \* the caller that last assigned tokens and last_update
    acquires,   \* acquire calls made so far
    wpc,        \* WhisperSTT.transcribe: "idle" | "acquire" | "retry" | "done"
    audio,      \* the AudioData passed to transcribe
    auto_normalize, \* WhisperSTT.auto_normalize
    sttEvents,  \* the events transcribe emitted on its observer
    sttOutcome, \* what the caller of transcribe got
    total_requests, \* WhisperSTT.total_requests
    failed_requests, \* WhisperSTT.failed_requests
    apiCalls,   \* how each request made by _transcribe_api_call ended, in order
    heap,       \* the PipelineEvent objects created so far; an object's id is its index
    lists,      \* the list objects: lists[1] is InMemoryEventObserver.events; a list is the ids of its items
    _callbacks, \* InMemoryEventObserver._callbacks: how each callback behaves
    emitResult, \* how the last emit call went
    emitLog,    \* what each emit since the last clear recorded, as it was then
    snapshot,   \* the id of the list the last get_events call returned, 0 if none
    wall,       \* time.time(), in seconds
    breakdown,  \* what the last get_latency_breakdown call returned
    conversation_history, \* ClaudeAPI.conversation_history: role and turn of each message
    qpc,        \* ClaudeAPI.query_stream: "idle" | "streaming"
    queries,    \* query_stream calls made so far
    failures    \* query_stream calls that ended without a complete response

chunkVars == <<kind, minLen, text, tokens, buffer, emitted, exhausted>>
pipeVars == <<pc, mode, query, sttResult, llmCalled, events, tasks, gatherResult,
              outcome, failed, cancelled>>
retryVars == <<config, retryable_exceptions, on_retry, rpc, attempt, last_exception,
               invocations, retried, sleeps, routcome>>
limVars == <<tokens_per_second, bucket_size, ltokens, last_update, now, locked,
             waiters, lpc, lneed, lwake, granted, writer, acquires>>
sttVars == <<wpc, audio, auto_normalize, sttEvents, sttOutcome, total_requests,
             failed_requests, apiCalls>>
busVars == <<heap, lists, _callbacks, emitResult, emitLog, snapshot, wall, breakdown>>
histVars == <<conversation_history, qpc, queries, failures>>
resVars == <<retryVars, limVars, sttVars, busVars, histVars>>

(***************************************************************************)
(* Bounds                                                                  *)
(***************************************************************************)
MaxPieces == 4
MaxTokens == 3
MaxAttempts == 3
MaxTime == 4
MaxAcquires == 4
MaxEmits == 3
MaxListeners == 2
MaxWall == 2
MaxQueries == 27
MaxFailures == 2

(***************************************************************************)
(* The resilience primitives before any of them is used                    *)
(***************************************************************************)
None == <<>>

\* RetryConfig() as retry_async builds it, and no call of retry_async yet
RetryIdle ==
    /\ config = [max_attempts |-> 3, initial_delay_ms |-> 100, max_delay_ms |-> 10000,
                 exponential_base |-> 2, jitter |-> TRUE]
    /\ retryable_exceptions = {"Exception"}
    /\ on_retry = FALSE
    /\ rpc = "idle"
    /\ attempt = 0
    /\ last_exception = None
    /\ invocations = <<>>
    /\ retried = <<>>
    /\ sleeps = <<>>
    /\ routcome = [kind |-> "none"]

\* token amounts are kept in 1/Scale tokens and time in ticks of
\* 1/TicksPerSecond seconds, so that the rates used are whole numbers
Scale == 12
TicksPerSecond == 2

Callers == {"a", "b"}

\* WhisperSTT.DEFAULT_RATE_LIMIT, 50.0 / 60.0 tokens per second
DEFAULT_RATE_LIMIT == (50 * Scale) \div (60 * TicksPerSecond)

\* int(tokens_per_second)
IntOfRate(rate) == (rate * TicksPerSecond) \div Scale

\* RateLimiter(tokens_per_second=rate, bucket_size=size) has just been built
LimiterBuilt(rate, size) ==
    /\ tokens_per_second = rate
    /\ bucket_size = (IF size # 0 THEN size ELSE IntOfRate(rate))
    /\ ltokens = bucket_size * Scale
    /\ last_update = 0
    /\ now = 0
    /\ locked = FALSE
    /\ waiters = <<>>
    /\ lpc = [c \in Callers |-> "idle"]
    /\ lneed = [c \in Callers |-> 0]
    /\ lwake = [c \in Callers |-> 0]
    /\ granted = 0
    /\ writer = None
    /\ acquires = 0

\* the limiter WhisperSTT.__init__ builds by default, not used yet
LimIdle == LimiterBuilt(DEFAULT_RATE_LIMIT, 0)

\* no transcribe call yet
SttIdle ==
    /\ wpc = "idle"
    /\ audio = [sample_rate |-> 16000, channels |-> 1, format |-> "wav",
                nsamples |-> 3200, corrupt |-> FALSE, duration_ms |-> 0]
    /\ auto_normalize = TRUE
    /\ sttEvents = <<>>
    /\ sttOutcome = [kind |-> "none"]
    /\ total_requests = 0
    /\ failed_requests = 0
    /\ apiCalls = <<>>

\* a new InMemoryEventObserver, nothing asked of it yet
BusIdle ==
    /\ heap = <<>>
    /\ lists = << <<>> >>
    /\ _callbacks = <<>>
    /\ emitResult = [kind |-> "none", error |-> "", event |-> 0, listeners |-> 0,
                     notified |-> 0, recorded |-> FALSE]
    /\ emitLog = <<>>
    /\ snapshot = 0
    /\ wall = 0
    /\ breakdown = [called |-> FALSE, latencies |-> <<>>]

\* a new ClaudeAPI, no query yet
HistIdle ==
    /\ conversation_history = <<>>
    /\ qpc = "idle"
    /\ queries = 0
    /\ failures = 0

ResIdle == RetryIdle /\ LimIdle /\ SttIdle /\ BusIdle /\ HistIdle

(***************************************************************************)
(* Characters and str methods                                              *)
(***************************************************************************)
UpperSeq == <<"A","B","C","D","E","F","G","H","I","J","K","L","M",
              "N","O","P","Q","R","S","T","U","V","W","X","Y","Z">>
LowerSeq == <<"a","b","c","d","e","f","g","h","i","j","k","l","m",
              "n","o","p","q","r","s","t","u","v","w","x","y","z">>

IsUpper(c) == \E i \in 1..Len(UpperSeq) : UpperSeq[i] = c
IsSpace(c) == c \in {" ", "\n", "\t"}
IsDigit(c) == c \in {"0","1","2","3","4","5","6","7","8","9"}
IsTerminator(c) == c \in {".", "!", "?"}

LowerChar(c) ==
    IF IsUpper(c)
    THEN LowerSeq[CHOOSE i \in 1..Len(UpperSeq) : UpperSeq[i] = c]
    ELSE c

Lower(s) == [i \in 1..Len(s) |-> LowerChar(s[i])]

\* s[n:] with n counted from 0, as a Python slice
Drop(s, n) == IF n >= Len(s) THEN <<>> ELSE SubSeq(s, n + 1, Len(s))

RECURSIVE LStrip(_)
LStrip(s) == IF s # <<>> /\ IsSpace(Head(s)) THEN LStrip(Tail(s)) ELSE s

RECURSIVE RStrip(_)
RStrip(s) ==
    IF s # <<>> /\ IsSpace(s[Len(s)]) THEN RStrip(SubSeq(s, 1, Len(s) - 1)) ELSE s

Strip(s) == LStrip(RStrip(s))

EndsWith(s, suf) ==
    /\ Len(suf) <= Len(s)
    /\ SubSeq(s, Len(s) - Len(suf) + 1, Len(s)) = suf

StartsWithAt(s, i, pat) ==
    /\ i + Len(pat) - 1 <= Len(s)
    /\ SubSeq(s, i, i + Len(pat) - 1) = pat

Count(s, c) == Cardinality({i \in 1..Len(s) : s[i] = c})

RECURSIVE Concat(_)
Concat(ss) == IF ss = <<>> THEN <<>> ELSE Head(ss) \o Concat(Tail(ss))

\* " ".join(ss)
RECURSIVE JoinSpace(_)
JoinSpace(ss) ==
    IF ss = <<>> THEN <<>>
    ELSE IF Len(ss) = 1 THEN Head(ss)
    ELSE Head(ss) \o <<" ">> \o JoinSpace(Tail(ss))

Chars(s) == [i \in 1..Len(s) |-> <<s[i]>>]

(***************************************************************************)
(* chunker.py : SentenceChunker                                            *)
(***************************************************************************)
BasicAbbreviations ==
    { <<"m","r",".">>, <<"m","r","s",".">>, <<"m","s",".">>, <<"d","r",".">>,
      <<"p","r","o","f",".">>, <<"s","r",".">>, <<"j","r",".">>,
      <<"i",".","e",".">>, <<"e",".","g",".">>, <<"e","t","c",".">>,
      <<"v","s",".">>, <<"i","n","c",".">>, <<"l","t","d",".">>,
      <<"c","o","r","p",".">> }

_has_sentence_boundary(t) == \E i \in 1..Len(t) : IsTerminator(t[i])

\* the candidate sentence for the terminator at (1-based) position pos
BasicCandidate(t, pos) == Strip(SubSeq(t, 1, pos))

BasicValid(t, pos, m) ==
    /\ IsTerminator(t[pos])
    /\ LET lower_sentence == Lower(BasicCandidate(t, pos))
       IN  /\ ~ \E abbr \in BasicAbbreviations : EndsWith(lower_sentence, abbr)
           /\ Len(lower_sentence) >= m

_extract_sentence(t, m) ==
    IF \E pos \in 1..Len(t) : BasicValid(t, pos, m)
    THEN LET first == CHOOSE pos \in 1..Len(t) :
                         /\ BasicValid(t, pos, m)
                         /\ \A q \in 1..(pos - 1) : ~BasicValid(t, q, m)
         IN  BasicCandidate(t, first)
    ELSE <<>>

\* one iteration of chunk_stream's "async for token" body
BasicOnToken(buf, tok, m) ==
    LET b == buf \o tok
        s == IF _has_sentence_boundary(b) THEN _extract_sentence(b, m) ELSE <<>>
    IN  IF s # <<>> /\ Len(s) >= m
        THEN [out |-> <<s>>, buffer |-> LStrip(Drop(b, Len(s)))]
        ELSE [out |-> <<>>, buffer |-> b]

(***************************************************************************)
(* chunker_fixed.py : SentenceChunker                                      *)
(***************************************************************************)
FixedAbbreviations ==
    { <<"m","r">>, <<"m","r","s">>, <<"m","s">>, <<"d","r">>,
      <<"p","r","o","f">>, <<"s","r">>, <<"j","r">>,
      <<"i",".","e">>, <<"e",".","g">>, <<"e","t","c">>, <<"v","s">>,
      <<"i","n","c">>, <<"l","t","d">>, <<"c","o","r","p">>,
      <<"s","t">>, <<"a","v","e">>, <<"b","l","v","d">>, <<"d","e","p","t">>,
      <<"f","i","g">>, <<"v","o","l">>, <<"n","o">> }

_is_inside_quotes(t) == Count(t, "\"") % 2 # 0 \/ Count(t, "'") % 2 # 0

\* re.search(r'\d+\.\d*$', t)
_ends_with_decimal(t) ==
    \E i \in 2..Len(t) :
        /\ t[i] = "."
        /\ IsDigit(t[i - 1])
        /\ \A j \in (i + 1)..Len(t) : IsDigit(t[j])

UrlPrefixes ==
    { <<"w","w","w",".">>, <<"h","t","t","p",":","/","/">>,
      <<"h","t","t","p","s",":","/","/">> }

\* re.search(r'(www\.|https?://)[^\s]*\.?$', t, re.IGNORECASE)
_ends_with_url(t) ==
    LET low == Lower(t)
    IN  \E i \in 1..Len(t) : \E p \in UrlPrefixes :
            /\ StartsWithAt(low, i, p)
            /\ \A j \in (i + Len(p))..Len(t) : ~IsSpace(t[j])

_ends_with_incomplete_ellipsis(t) == EndsWith(t, <<".">>) \/ EndsWith(t, <<".", ".">>)

_ends_with_abbreviation(t) ==
    LET text_lower == RStrip(Lower(t))
    IN  \E abbr \in FixedAbbreviations : EndsWith(text_lower, abbr \o <<".">>)

_is_false_boundary(s) ==
    \/ LET sentence_lower == Strip(Lower(s))
       IN  \E abbr \in FixedAbbreviations : EndsWith(sentence_lower, abbr \o <<".">>)
    \/ _ends_with_decimal(s)
    \/ _ends_with_url(s)

\* the "for char in text" loop of _extract_sentences: i is the index of the
\* next character, cur the local `current`, acc the local `sentences`
RECURSIVE FixedScan(_, _, _, _, _)
FixedScan(t, m, i, cur, acc) ==
    IF i > Len(t)
    THEN IF cur # <<>> THEN Append(acc, cur) ELSE acc
    ELSE LET c == cur \o <<t[i]>>
             remaining == Drop(t, Len(c))
             boundary ==
                /\ IsTerminator(t[i])
                /\ Len(c) >= m
                /\ \/ remaining = <<>>
                   \/ /\ IsSpace(remaining[1])
                      /\ Len(remaining) > 1
                      /\ IsUpper(remaining[2])
                /\ ~_is_false_boundary(c)
         IN  IF boundary
             THEN FixedScan(t, m, i + 1, <<>>, Append(acc, Strip(c)))
             ELSE FixedScan(t, m, i + 1, c, acc)

_extract_sentences(t, m) ==
    IF t = <<>> THEN <<>>
    ELSE IF \/ _is_inside_quotes(t)
            \/ _ends_with_decimal(t)
            \/ _ends_with_url(t)
            \/ _ends_with_incomplete_ellipsis(t)
            \/ _ends_with_abbreviation(t)
         THEN <<t>>
         ELSE LET sentences == FixedScan(t, m, 1, <<>>, <<>>)
              IN  IF sentences # <<>> THEN sentences ELSE <<t>>

\* the sentences of ss that chunk_stream yields (len(sentence) >= min)
RECURSIVE LongEnough(_, _)
LongEnough(ss, m) ==
    IF ss = <<>> THEN <<>>
    ELSE IF Len(Head(ss)) >= m
         THEN <<Head(ss)>> \o LongEnough(Tail(ss), m)
         ELSE LongEnough(Tail(ss), m)

\* one iteration of chunk_stream's "async for token" body
FixedOnToken(buf, tok, m) ==
    LET b == buf \o tok
        sentences == _extract_sentences(b, m)
    IN  IF sentences # <<>>
        THEN [out |-> LongEnough(SubSeq(sentences, 1, Len(sentences) - 1), m),
              buffer |-> sentences[Len(sentences)]]
        ELSE [out |-> <<>>, buffer |-> b]

(***************************************************************************)
(* chunk_stream, either class                                              *)
(***************************************************************************)
OnToken(k, buf, tok, m) ==
    IF k = "basic" THEN BasicOnToken(buf, tok, m) ELSE FixedOnToken(buf, tok, m)

OnExhaustedUnstripped(buf) == IF buf # <<>> THEN <<buf>> ELSE <<>>

\* after the token loop: "if buffer.strip(): yield buffer.strip()"
OnExhausted(buf) == IF Strip(buf) # <<>> THEN <<Strip(buf)>> ELSE <<>>

(***************************************************************************)
(* Token streams                                                           *)
(***************************************************************************)
Pieces == { <<"A","a",".">>, <<" ","A",".">>, <<" ">>, <<"A">>, <<"a","!">> }

PieceSeqs == UNION { [1..n -> Pieces] : n \in 0..MaxPieces }

MinLens == {2, 3}

\* the state of a pipeline before process_text / process_audio is called
PipeIdle ==
    /\ pc = "idle"
    /\ mode = "none"
    /\ query = <<>>
    /\ sttResult = <<"none">>
    /\ llmCalled = FALSE
    /\ events = <<>>
    /\ tasks = <<>>
    /\ gatherResult = <<"none">>
    /\ outcome = [kind |-> "none"]
    /\ failed = {}
    /\ cancelled = FALSE

ChunkInit ==
    /\ kind \in {"basic", "fixed"}
    /\ minLen \in MinLens
    /\ \E ps \in PieceSeqs :
          /\ text = Concat(ps)
          /\ tokens \in {ps, Chars(Concat(ps))}
    /\ buffer = <<>>
    /\ emitted = <<>>
    /\ exhausted = FALSE
    /\ PipeIdle
    /\ ResIdle

\* chunk_stream receives the next token
ChunkToken ==
    /\ ~exhausted
    /\ tokens # <<>>
    /\ LET r == OnToken(kind, buffer, Head(tokens), minLen)
       IN  /\ buffer' = r.buffer
           /\ emitted' = emitted \o r.out
    /\ tokens' = Tail(tokens)
    /\ UNCHANGED <<kind, minLen, text, exhausted>>
    /\ UNCHANGED pipeVars
    /\ UNCHANGED resVars

\* the token stream ends: the final sentence is yielded
ChunkFinish ==
    /\ ~exhausted
    /\ tokens = <<>>
    /\ emitted' = emitted \o OnExhausted(buffer)
    /\ exhausted' = TRUE
    /\ UNCHANGED <<kind, minLen, text, tokens, buffer>>
    /\ UNCHANGED pipeVars
    /\ UNCHANGED resVars

vars == <<chunkVars, pipeVars, resVars>>

ChunkNext == ChunkToken \/ ChunkFinish

SpecChunk == ChunkInit /\ [][ChunkNext]_vars

(***************************************************************************)
(* pipeline.py : VoicePipeline                                             *)
(***************************************************************************)
\* s[:n]
Prefix(s, n) == IF Len(s) <= n THEN s ELSE SubSeq(s, 1, n)

Last(s) == s[Len(s)]

\* the exceptions of the model: a type name and a message
STTError == [type |-> "STTError", msg |-> <<"stt">>]
LLMError == [type |-> "LLMError", msg |-> <<"llm">>]
TaskError(i) == [type |-> "TTSError", msg |-> <<"tts", i>>]
CancelledError == [type |-> "CancelledError", msg |-> <<>>]

\* mutant: "except BaseException", which also catches a cancellation
CatchesBaseException(e) == TRUE

\* mutant: an except clause that matches nothing
CatchesNothing(e) == FALSE

\* "except Exception": asyncio.CancelledError derives from BaseException
CatchesException(e) == e.type # "CancelledError"

StartEventText(q) == [type |-> "PIPELINE_START", data |-> [text |-> Prefix(q, 100)]]
StartEventAudio(a) == [type |-> "PIPELINE_START", data |-> [audio_duration_ms |-> Len(a)]]
CompleteEventText(q) == [type |-> "PIPELINE_COMPLETE", data |-> [text |-> Prefix(q, 100)]]
CompleteEventAudio(t) == [type |-> "PIPELINE_COMPLETE", data |-> [transcript |-> t]]
ErrorEvent(e) ==
    [type |-> "PIPELINE_ERROR", data |-> [error |-> e.msg, error_type |-> e.type]]
EmptyTranscriptEvent ==
    [type |-> "PIPELINE_ERROR", data |-> [error |-> "Empty transcript"]]
SentenceEvent(s) ==
    [type |-> "SENTENCE_READY", data |-> [sentence |-> Prefix(s, 100), length |-> Len(s)]]
FinalSentenceEvent(s) ==
    [type |-> "SENTENCE_READY",
     data |-> [sentence |-> Prefix(s, 100), length |-> Len(s), final |-> TRUE]]

SentenceEvents(ss) == [i \in 1..Len(ss) |-> SentenceEvent(ss[i])]
FinalSentenceEvents(ss) == [i \in 1..Len(ss) |-> FinalSentenceEvent(ss[i])]

\* mutant: the new handles are put in front of the earlier ones
DispatchInFront(tsks, ss) ==
    [i \in 1..Len(ss) |-> [sentence |-> ss[i], state |-> "running"]] \o tsks

\* the loop body: one asyncio.create_task(self.tts.speak(sentence)) per
\* sentence the chunker yields, appended to tts_tasks
Dispatch(tsks, ss) ==
    tsks \o [i \in 1..Len(ss) |-> [sentence |-> ss[i], state |-> "running"]]

\* mutant: the loop body awaits the task it has just created
AfterDispatchAwaited(tsks) ==
    IF \E i \in 1..Len(tsks) : tsks[i].state = "running" THEN "await_tts" ELSE "stream"

\* where the coroutine waits after the loop body ran: the body holds no
\* await, so it is back at the token stream whatever the tasks are doing
AfterDispatch(tsks) == "stream"

\* "if not transcript": only the empty string is falsy
TranscriptIsEmpty(t) == t = <<>>

Done(tsks) == {i \in 1..Len(tsks) : tsks[i].state # "running"}
Failed(tsks) == {i \in 1..Len(tsks) : tsks[i].state = "failed"}

Min(S) == CHOOSE x \in S : \A y \in S : x <= y

\* asyncio.gather(*tts_tasks) at the moment it is called: the done callbacks
\* of finished tasks run in argument order, the first exception wins
GatherCalled(tsks) ==
    IF Failed(tsks) # {} THEN <<"exc", Min(Failed(tsks))>>
    ELSE IF Done(tsks) = 1..Len(tsks) THEN <<"ok">>
    ELSE <<"none">>

\* mutant: the wait ends with the first task that returns
GatherOnTaskFirstCompleted(g, tsks, i) ==
    IF g # <<"none">> THEN g
    ELSE IF tsks[i].state = "failed" THEN <<"exc", i>>
    ELSE <<"ok">>

\* asyncio.gather while it is awaited and task i finishes
GatherOnTask(g, tsks, i) ==
    IF g # <<"none">> THEN g
    ELSE IF tsks[i].state = "failed" THEN <<"exc", i>>
    ELSE IF Done(tsks) = 1..Len(tsks) THEN <<"ok">>
    ELSE <<"none">>

\* gather's future is cancelled: every child still running is cancelled
CancelChildren(tsks) ==
    [i \in 1..Len(tsks) |->
        IF tsks[i].state = "running" THEN [tsks[i] EXCEPT !.state = "cancelled"]
        ELSE tsks[i]]

AudioInputs == { <<0, 0>> }
Queries == { <<"h", "i">> }
Transcripts == { <<>>, <<" ">>, <<"h", "i">> }

PipelinePieces == { <<"A","a",".">>, <<" ">>, <<"A">> }
PipelineStreams == UNION { [1..n -> PipelinePieces] : n \in 0..MaxTokens }

Init ==
    /\ kind \in {"basic", "fixed"}
    /\ minLen \in MinLens
    /\ \E ps \in PipelineStreams :
          /\ text = Concat(ps)
          /\ tokens = ps
    /\ buffer = <<>>
    /\ emitted = <<>>
    /\ exhausted = FALSE
    /\ PipeIdle
    /\ ResIdle

\* mutant: the handler records the event and forgets to re-raise
RaiseSwallowed(e) ==
    /\ events' = IF CatchesException(e) THEN Append(events, ErrorEvent(e)) ELSE events
    /\ outcome' = [kind |-> "returned", value |-> <<"None">>]
    /\ pc' = "done"

\* an exception e leaves the try block of process_text / process_audio
Raise(e) ==
    /\ events' = IF CatchesException(e) THEN Append(events, ErrorEvent(e)) ELSE events
    /\ outcome' = [kind |-> "raised", error |-> e]
    /\ pc' = "done"

\* _process_text_query returned: the completion event, then the return
Complete(evs) ==
    /\ events' = Append(evs,
                    IF mode = "text" THEN CompleteEventText(query)
                    ELSE CompleteEventAudio(query))
    /\ outcome' = [kind |-> "returned",
                   value |-> IF mode = "text" THEN <<"None">> ELSE <<"str", query>>]
    /\ pc' = "done"

\* process_text(q) up to its first suspension, the wait for a token
StartText ==
    /\ pc = "idle"
    /\ \E q \in Queries :
          /\ query' = q
          /\ events' = Append(events, StartEventText(q))
    /\ mode' = "text"
    /\ llmCalled' = TRUE
    /\ pc' = "stream"
    /\ UNCHANGED <<sttResult, tasks, gatherResult, outcome, failed, cancelled>>
    /\ UNCHANGED chunkVars
    /\ UNCHANGED resVars

\* process_audio(a) up to its first suspension, the wait for stt.transcribe
StartAudio ==
    /\ pc = "idle"
    /\ \E a \in AudioInputs : events' = Append(events, StartEventAudio(a))
    /\ mode' = "audio"
    /\ pc' = "stt"
    /\ UNCHANGED <<query, sttResult, llmCalled, tasks, gatherResult, outcome,
                   failed, cancelled>>
    /\ UNCHANGED chunkVars
    /\ UNCHANGED resVars

\* stt.transcribe returns a transcript
SttReturn ==
    /\ pc = "stt"
    /\ \E t \in Transcripts :
          /\ sttResult' = <<"ok", t>>
          /\ IF TranscriptIsEmpty(t)
             THEN /\ events' = Append(events, EmptyTranscriptEvent)
                  /\ outcome' = [kind |-> "returned", value |-> <<"str", <<>>>>]
                  /\ pc' = "done"
                  /\ UNCHANGED <<query, llmCalled>>
             ELSE /\ query' = t
                  /\ llmCalled' = TRUE
                  /\ pc' = "stream"
                  /\ UNCHANGED <<events, outcome>>
    /\ UNCHANGED <<mode, tasks, gatherResult, failed, cancelled>>
    /\ UNCHANGED chunkVars
    /\ UNCHANGED resVars

\* stt.transcribe raises
SttFail ==
    /\ pc = "stt"
    /\ failed' = failed \cup {STTError}
    /\ Raise(STTError)
    /\ UNCHANGED <<mode, query, sttResult, llmCalled, tasks, gatherResult, cancelled>>
    /\ UNCHANGED chunkVars
    /\ UNCHANGED resVars

\* the token stream delivers a token: the chunker's loop body, and the
\* pipeline's loop body for every sentence it yields
PullToken ==
    /\ pc = "stream"
    /\ tokens # <<>>
    /\ LET r == OnToken(kind, buffer, Head(tokens), minLen)
       IN  /\ buffer' = r.buffer
           /\ emitted' = emitted \o r.out
           /\ events' = events \o SentenceEvents(r.out)
           /\ tasks' = Dispatch(tasks, r.out)
    /\ tokens' = Tail(tokens)
    /\ pc' = AfterDispatch(tasks')
    /\ UNCHANGED <<kind, minLen, text, exhausted>>
    /\ UNCHANGED <<mode, query, sttResult, llmCalled, gatherResult, outcome,
                   failed, cancelled>>
    /\ UNCHANGED resVars

\* the token stream ends: the final sentence, its task, and the gather call
StreamEnd ==
    /\ pc = "stream"
    /\ tokens = <<>>
    /\ LET out == OnExhausted(buffer)
           evs == events \o FinalSentenceEvents(out)
           tsks == Dispatch(tasks, out)
       IN  /\ emitted' = emitted \o out
           /\ tasks' = tsks
           /\ IF tsks = <<>>
              THEN Complete(evs) /\ UNCHANGED gatherResult
              ELSE /\ events' = evs
                   /\ gatherResult' = GatherCalled(tsks)
                   /\ pc' = "gather"
                   /\ UNCHANGED outcome
    /\ exhausted' = TRUE
    /\ UNCHANGED <<kind, minLen, text, tokens, buffer>>
    /\ UNCHANGED <<mode, query, sttResult, llmCalled, failed, cancelled>>
    /\ UNCHANGED resVars

\* the token stream raises instead of delivering a token
StreamFail ==
    /\ pc = "stream"
    /\ failed' = failed \cup {LLMError}
    /\ Raise(LLMError)
    /\ UNCHANGED <<mode, query, sttResult, llmCalled, tasks, gatherResult, cancelled>>
    /\ UNCHANGED chunkVars
    /\ UNCHANGED resVars

\* a synthesis task returns
TaskDone ==
    /\ \E i \in 1..Len(tasks) :
          /\ tasks[i].state = "running"
          /\ tasks' = [tasks EXCEPT ![i].state = "ok"]
          /\ gatherResult' = IF pc = "gather"
                             THEN GatherOnTask(gatherResult, tasks', i)
                             ELSE gatherResult
    /\ UNCHANGED <<pc, mode, query, sttResult, llmCalled, events, outcome,
                   failed, cancelled>>
    /\ UNCHANGED chunkVars
    /\ UNCHANGED resVars

\* a synthesis task raises
TaskFail ==
    /\ \E i \in 1..Len(tasks) :
          /\ tasks[i].state = "running"
          /\ tasks' = [tasks EXCEPT ![i].state = "failed"]
          /\ failed' = failed \cup {TaskError(i)}
          /\ gatherResult' = IF pc = "gather"
                             THEN GatherOnTask(gatherResult, tasks', i)
                             ELSE gatherResult
    /\ UNCHANGED <<pc, mode, query, sttResult, llmCalled, events, outcome, cancelled>>
    /\ UNCHANGED chunkVars
    /\ UNCHANGED resVars

\* the coroutine resumes from "await asyncio.gather(*tts_tasks)"
GatherWake ==
    /\ pc = "gather"
    /\ gatherResult # <<"none">>
    /\ IF gatherResult = <<"ok">>
       THEN Complete(events)
       ELSE Raise(TaskError(gatherResult[2]))
    /\ UNCHANGED <<mode, query, sttResult, llmCalled, tasks, gatherResult,
                   failed, cancelled>>
    /\ UNCHANGED chunkVars
    /\ UNCHANGED resVars

\* the caller cancels the run while it is suspended.  Cancelling a gather
\* future that is still pending cancels its children; one that has already
\* resolved refuses the cancel and the coroutine is cancelled at its wake-up
Cancel ==
    /\ pc \in {"stt", "stream", "gather"}
    /\ cancelled' = TRUE
    /\ tasks' = IF pc = "gather" /\ gatherResult = <<"none">>
                THEN CancelChildren(tasks)
                ELSE tasks
    /\ Raise(CancelledError)
    /\ UNCHANGED <<mode, query, sttResult, llmCalled, gatherResult, failed>>
    /\ UNCHANGED chunkVars
    /\ UNCHANGED resVars

Next ==
    \/ StartText
    \/ StartAudio
    \/ SttReturn
    \/ SttFail
    \/ PullToken
    \/ StreamEnd
    \/ StreamFail
    \/ TaskDone
    \/ TaskFail
    \/ GatherWake
    \/ Cancel

Spec == Init /\ [][Next]_vars

(***************************************************************************)
(* The end-to-end scenario: MockLLM streaming a fixed response             *)
(***************************************************************************)
\* the words of str.split(): maximal runs of characters that are not spaces
RECURSIVE SplitWords(_, _)
SplitWords(t, word) ==
    IF t = <<>> THEN (IF word = <<>> THEN <<>> ELSE <<word>>)
    ELSE IF IsSpace(Head(t))
         THEN (IF word = <<>> THEN <<>> ELSE <<word>>) \o SplitWords(Tail(t), <<>>)
         ELSE SplitWords(Tail(t), Append(word, Head(t)))

\* MockLLM._tokenize: the words, with a " " token before all but the first
RECURSIVE SpaceBefore(_)
SpaceBefore(ws) ==
    IF ws = <<>> THEN <<>> ELSE << <<" ">>, Head(ws) >> \o SpaceBefore(Tail(ws))

_tokenize(t) ==
    LET words == SplitWords(t, <<>>)
    IN  IF words = <<>> THEN <<>> ELSE <<Head(words)>> \o SpaceBefore(Tail(words))

HelloText ==
    <<"H","e","l","l","o","!"," ","H","o","w"," ","a","r","e"," ",
      "y","o","u","?"," ","F","i","n","e",".">>

HelloMinLen == 5

InitE2E ==
    /\ kind \in {"basic", "fixed"}
    /\ minLen = HelloMinLen
    /\ text = HelloText
    /\ tokens \in {_tokenize(HelloText), Chars(HelloText)}
    /\ buffer = <<>>
    /\ emitted = <<>>
    /\ exhausted = FALSE
    /\ PipeIdle
    /\ ResIdle

SpecE2E == InitE2E /\ [][Next]_vars

(***************************************************************************)
(* src/core/retry.py: RetryConfig and retry_async                          *)
(***************************************************************************)
\* the base class of each exception class the model raises
Bases ==
    [c \in {"ValueError", "TypeError", "RuntimeError", "ClientError", "TimeoutError",
            "AudioPipelineError", "AudioFormatError", "AudioTooShortError",
            "AudioTooLongError", "AudioNormalizationError", "STTError",
            "WhisperAPIError", "WhisperRateLimitError", "WhisperAuthenticationError",
            "WhisperTimeoutError"} |->
        CASE c \in {"AudioFormatError", "AudioNormalizationError", "STTError"}
                 -> "AudioPipelineError"
          [] c \in {"AudioTooShortError", "AudioTooLongError"} -> "AudioFormatError"
          [] c \in {"WhisperAPIError", "WhisperTimeoutError"} -> "STTError"
          [] c \in {"WhisperRateLimitError", "WhisperAuthenticationError"}
                 -> "WhisperAPIError"
          [] OTHER -> "Exception"]

\* issubclass(c, d)
RECURSIVE IsSubclass(_, _)
IsSubclass(c, d) ==
    \/ c = d
    \/ c \in DOMAIN Bases /\ IsSubclass(Bases[c], d)

\* mutant: every exception is caught by the except clause
MatchesAnything(e, classes) == TRUE

\* "except classes as e" catches e
Matches(e, classes) == \E d \in classes : IsSubclass(e.type, d)

RECURSIVE Pow(_, _)
Pow(b, k) == IF k = 0 THEN 1 ELSE b * Pow(b, k - 1)

\* the values 1.0 + (random.random() - 0.5) * 0.5 can take, in percent
JitterFactors == {75, 100, 124}

\* mutant: the delay is not capped at max_delay_ms
get_delay_ms_uncapped(cfg, k, factor) ==
    LET delay == cfg.initial_delay_ms * Pow(cfg.exponential_base, k)
    IN  IF cfg.jitter THEN (delay * factor) \div 100 ELSE delay

\* RetryConfig.get_delay_ms(k), the random draw being factor
get_delay_ms(cfg, k, factor) ==
    LET delay == Min({cfg.initial_delay_ms * Pow(cfg.exponential_base, k),
                      cfg.max_delay_ms})
    IN  IF cfg.jitter THEN (delay * factor) \div 100 ELSE delay

\* mutant: the attempt before the last one already gives up
IsLastAttemptEarly(cfg, k) == k >= cfg.max_attempts - 2

\* attempt == config.max_attempts - 1
IsLastAttempt(cfg, k) == k = cfg.max_attempts - 1

\* mutant: the callback gets the 0-based loop variable
OnRetryArgsZeroBased(e, k) == <<e, k>>

\* the arguments of on_retry(e, attempt + 1)
OnRetryArgs(e, k) == <<e, k + 1>>

\* mutant: a fixed value is returned in place of the result of func
RetryReturnsNone(v) == [kind |-> "returned", value |-> 0]

\* return await func(*args, **kwargs)
RetryReturns(v) == [kind |-> "returned", value |-> v]

RetryRaises(e) == [kind |-> "raised", error |-> e]

FuncOk(n) == [kind |-> "ok", value |-> n]
FuncRaise(t, n) == [kind |-> "raise", error |-> [type |-> t, n |-> n]]

\* retry_async from its call to its first suspension: the first func call,
\* or, the range of the loop being empty, the statements after the loop
RetryEnter ==
    /\ attempt' = 0
    /\ IF config.max_attempts >= 1
       THEN rpc' = "call" /\ UNCHANGED routcome
       ELSE /\ rpc' = "done"
            /\ routcome' = RetryRaises(IF last_exception # None THEN last_exception
                                       ELSE [type |-> "RuntimeError", n |-> 0])
    /\ UNCHANGED <<config, retryable_exceptions, on_retry, last_exception,
                   invocations, retried, sleeps>>

\* the awaited func call finished with res: the rest of the loop body, up
\* to the return, the raise, or the backoff sleep
RetryOnResult(res) ==
    /\ invocations' = Append(invocations, res)
    /\ IF res.kind = "ok"
       THEN /\ routcome' = RetryReturns(res.value)
            /\ rpc' = "done"
            /\ UNCHANGED <<last_exception, retried, sleeps>>
       ELSE IF ~Matches(res.error, retryable_exceptions)
       THEN /\ routcome' = RetryRaises(res.error)
            /\ rpc' = "done"
            /\ UNCHANGED <<last_exception, retried, sleeps>>
       ELSE /\ last_exception' = res.error
            /\ IF IsLastAttempt(config, attempt)
               THEN /\ routcome' = RetryRaises(res.error)
                    /\ rpc' = "done"
                    /\ UNCHANGED <<retried, sleeps>>
               ELSE /\ \E factor \in JitterFactors :
                          sleeps' = Append(sleeps, get_delay_ms(config, attempt, factor))
                    /\ retried' = IF on_retry
                                  THEN Append(retried, OnRetryArgs(res.error, attempt))
                                  ELSE retried
                    /\ rpc' = "sleep"
                    /\ UNCHANGED routcome
    /\ UNCHANGED <<config, retryable_exceptions, on_retry, attempt>>

\* the exception classes the operation under test raises
FuncErrors == {"ValueError", "TypeError"}

RetryConfigs ==
    [max_attempts : 0..MaxAttempts, initial_delay_ms : {0, 100},
     max_delay_ms : {200, 10000}, exponential_base : {2, 3}, jitter : BOOLEAN]

ChunkIdle ==
    /\ kind = "basic"
    /\ minLen = 10
    /\ text = <<>>
    /\ tokens = <<>>
    /\ buffer = <<>>
    /\ emitted = <<>>
    /\ exhausted = FALSE

InitRetry ==
    /\ config \in RetryConfigs
    /\ retryable_exceptions \in {{"ValueError"}, {"Exception"}}
    /\ on_retry \in BOOLEAN
    /\ rpc = "idle"
    /\ attempt = 0
    /\ last_exception = None
    /\ invocations = <<>>
    /\ retried = <<>>
    /\ sleeps = <<>>
    /\ routcome = [kind |-> "none"]
    /\ LimIdle
    /\ SttIdle
    /\ BusIdle
    /\ HistIdle
    /\ ChunkIdle
    /\ PipeIdle

\* retry_async(func, config=..., retryable_exceptions=..., on_retry=...) is called
RetryStart ==
    /\ rpc = "idle"
    /\ RetryEnter
    /\ UNCHANGED <<chunkVars, pipeVars, busVars, histVars, limVars, sttVars>>

\* func returns
RetryAttemptReturns ==
    /\ rpc = "call"
    /\ RetryOnResult(FuncOk(Len(invocations) + 1))
    /\ UNCHANGED <<chunkVars, pipeVars, busVars, histVars, limVars, sttVars>>

\* func raises
RetryAttemptRaises ==
    /\ rpc = "call"
    /\ \E t \in FuncErrors : RetryOnResult(FuncRaise(t, Len(invocations) + 1))
    /\ UNCHANGED <<chunkVars, pipeVars, busVars, histVars, limVars, sttVars>>

\* asyncio.sleep(delay_ms / 1000.0) is over: the next iteration of the loop
RetryWake ==
    /\ rpc = "sleep"
    /\ attempt' = attempt + 1
    /\ rpc' = "call"
    /\ UNCHANGED <<config, retryable_exceptions, on_retry, last_exception,
                   invocations, retried, sleeps, routcome>>
    /\ UNCHANGED <<chunkVars, pipeVars, busVars, histVars, limVars, sttVars>>

NextRetry ==
    \/ RetryStart
    \/ RetryAttemptReturns
    \/ RetryAttemptRaises
    \/ RetryWake

SpecRetry == InitRetry /\ [][NextRetry]_vars

(***************************************************************************)
(* src/core/retry.py: RateLimiter                                          *)
(***************************************************************************)
\* mutant: the lock admits a caller whatever its state
CanEnterAlways(l, w) == TRUE

\* asyncio.Lock.acquire returns at once: not locked and nobody queued
CanEnter(l, w) == ~l /\ w = <<>>

\* mutant: the availability check always passes
HasEnoughAlways(t, n) == TRUE

\* mutant: exactly enough tokens is not enough
HasEnoughStrict(t, n) == t > n * Scale

\* self.tokens >= tokens
HasEnough(t, n) == t >= n * Scale

\* mutant: the refill is not capped at bucket_size
RefilledUncapped(t) == ltokens + (t - last_update) * tokens_per_second

\* self.tokens after the refill at time t
Refilled(t) ==
    Min({bucket_size * Scale, ltokens + (t - last_update) * tokens_per_second})

\* the ticks asyncio.sleep(wait_time) lasts at least: wait_time rounded up
WaitTicks(t, n) == ((n * Scale - t) + tokens_per_second - 1) \div tokens_per_second

\* mutant: release wakes nobody
ReleasedNoWake(pcs, w) == pcs

\* asyncio.Lock.release: the lock is free and the oldest waiter is woken
Released(pcs, w) ==
    IF w = <<>> THEN pcs
    ELSE [pcs EXCEPT ![Head(w)] = "woken"]

\* mutant: the lock is given up for the time of the sleep
SleepsWithoutLock(pcs, w) == Released(pcs, w)

\* "await asyncio.sleep(wait_time)" is inside "async with self._lock": the
\* sleep releases nothing and wakes nobody
SleepsWithLock(pcs, w) == pcs

\* one pass of the while loop of acquire, run by caller c who wants n
\* tokens, w being the queue of the lock: refill, then either debit,
\* release and return, or go to sleep
LoopPass(c, n, w) ==
    LET t == Refilled(now)
    IN  /\ last_update' = now
        /\ writer' = c
        /\ IF HasEnough(t, n)
           THEN /\ ltokens' = t - n * Scale
                /\ granted' = granted + n
                /\ locked' = FALSE
                /\ lpc' = Released([lpc EXCEPT ![c] = "done"], w)
                /\ UNCHANGED lwake
           ELSE /\ ltokens' = t
                /\ lwake' = [lwake EXCEPT ![c] = now + WaitTicks(t, n)]
                /\ locked' = TRUE
                /\ lpc' = SleepsWithLock([lpc EXCEPT ![c] = "sleeping"], w)
                /\ UNCHANGED granted

\* caller c calls acquire(n): it takes the lock and runs the loop, or queues
AcquireCall(c, n) ==
    /\ lneed' = [lneed EXCEPT ![c] = n]
    /\ acquires' = acquires + 1
    /\ IF CanEnter(locked, waiters)
       THEN LoopPass(c, n, waiters) /\ UNCHANGED waiters
       ELSE /\ waiters' = Append(waiters, c)
            /\ lpc' = [lpc EXCEPT ![c] = "waiting"]
            /\ UNCHANGED <<ltokens, last_update, locked, lwake, granted, writer>>
    /\ UNCHANGED <<tokens_per_second, bucket_size, now>>

InitLimiter ==
    /\ \E rate \in {DEFAULT_RATE_LIMIT, (2 * Scale) \div TicksPerSecond} :
       \E size \in {0, 1, 2} : LimiterBuilt(rate, size)
    /\ RetryIdle
    /\ SttIdle
    /\ BusIdle
    /\ HistIdle
    /\ ChunkIdle
    /\ PipeIdle

LimAcquire ==
    /\ acquires < MaxAcquires
    /\ \E c \in Callers : \E n \in {1, 2} :
          /\ lpc[c] \in {"idle", "done"}
          /\ AcquireCall(c, n)
    /\ UNCHANGED <<chunkVars, pipeVars, busVars, histVars, retryVars, sttVars>>

\* a queued caller, woken by release, takes the lock and runs the loop
LimResume ==
    /\ \E c \in Callers :
          /\ lpc[c] = "woken"
          /\ waiters' = Tail(waiters)
          /\ LoopPass(c, lneed[c], Tail(waiters))
    /\ UNCHANGED <<tokens_per_second, bucket_size, now, lneed, acquires>>
    /\ UNCHANGED <<chunkVars, pipeVars, busVars, histVars, retryVars, sttVars>>

\* asyncio.sleep(wait_time) is over: the next pass of the loop
LimWake ==
    /\ \E c \in Callers :
          /\ lpc[c] = "sleeping"
          /\ now >= lwake[c]
          /\ LoopPass(c, lneed[c], waiters)
    /\ UNCHANGED <<tokens_per_second, bucket_size, now, waiters, lneed, acquires>>
    /\ UNCHANGED <<chunkVars, pipeVars, busVars, histVars, retryVars, sttVars>>

\* time passes
Tick ==
    /\ now < MaxTime
    /\ now' = now + 1
    /\ UNCHANGED <<tokens_per_second, bucket_size, ltokens, last_update, locked,
                   waiters, lpc, lneed, lwake, granted, writer, acquires>>
    /\ UNCHANGED <<chunkVars, pipeVars, busVars, histVars, retryVars, sttVars>>

NextLimiter == LimAcquire \/ LimResume \/ LimWake \/ Tick

SpecLimiter == InitLimiter /\ [][NextLimiter]_vars

\* the ticks after which a refill fills the bucket whatever it held
FillTicks ==
    (bucket_size * Scale + tokens_per_second - 1) \div tokens_per_second

Later(a, b) == IF a >= b THEN a ELSE b

\* time passes at the horizon MaxTime: the origin of the clock moves one
\* tick forward, which takes one tick off every stored time.  acquire reads
\* stored times only through now - last_update, which fills the bucket from
\* FillTicks on, and through now >= wake time, so they are kept no further
\* back than that
TickAtHorizon ==
    /\ now = MaxTime
    /\ last_update' = Later(last_update - 1, MaxTime - FillTicks)
    /\ lwake' = [c \in Callers |-> Later(lwake[c] - 1, 0)]
    /\ UNCHANGED <<tokens_per_second, bucket_size, ltokens, now, locked,
                   waiters, lpc, lneed, granted, writer, acquires>>
    /\ UNCHANGED <<chunkVars, pipeVars, busVars, histVars, retryVars, sttVars>>

NextLimiterLive == LimAcquire \/ LimResume \/ LimWake \/ Tick \/ TickAtHorizon

\* the limiter with a clock that never stops and an event loop that runs
\* every task that is ready
SpecLimiterLive ==
    /\ InitLimiter
    /\ [][NextLimiterLive]_vars
    /\ WF_vars(Tick \/ TickAtHorizon)
    /\ WF_vars(LimWake)
    /\ WF_vars(LimResume)

(***************************************************************************)
(* src/audio/normalize.py and src/stt/whisper.py                           *)
(***************************************************************************)
WHISPER_SAMPLE_RATE == 16000
WHISPER_CHANNELS == 1
WHISPER_MAX_FILE_SIZE_MB == 25
WHISPER_MIN_DURATION_MS == 100

\* bytes of a WAV header in front of the PCM data
WavHeaderBytes == 44

\* AudioData is [sample_rate, channels, format, nsamples, corrupt,
\* duration_ms]: nsamples 16-bit samples of data, duration_ms 0 when unset;
\* corrupt data is a WAV file wave.open rejects, or raw PCM of odd length
size_bytes(a) ==
    2 * a.nsamples + (IF a.format = "wav" THEN WavHeaderBytes ELSE 0)
                   + (IF a.corrupt /\ a.format # "wav" THEN 1 ELSE 0)

AudioError(t) == [type |-> t, cause |-> "none"]

Ok(v) == [kind |-> "ok", value |-> v]
Raised(e) == [kind |-> "raise", error |-> e]

\* validate_audio_for_whisper(a): Ok, or the error it raises
validate_audio_for_whisper(a) ==
    IF a.duration_ms # 0 /\ a.duration_ms < WHISPER_MIN_DURATION_MS
    THEN Raised(AudioError("AudioTooShortError"))
    ELSE IF size_bytes(a) > WHISPER_MAX_FILE_SIZE_MB * 1024 * 1024
    THEN Raised(AudioError("AudioTooLongError"))
    ELSE IF a.format \notin {"wav", "flac", "mp3"}
    THEN Raised(AudioError("AudioFormatError"))
    ELSE Ok(a)

\* _convert_to_mono: one sample per frame of a.channels samples
MonoSamples(a) ==
    IF a.channels > 1 THEN (a.nsamples + a.channels - 1) \div a.channels
    ELSE a.nsamples

\* _resample: int(len(samples) * to_rate / from_rate), rates in kHz
Resampled(n, from_rate) ==
    (n * (WHISPER_SAMPLE_RATE \div 1000)) \div (from_rate \div 1000)

\* the body of the try block of normalize_for_whisper
NormalizeBody(a) ==
    IF /\ a.sample_rate = WHISPER_SAMPLE_RATE
       /\ a.channels = WHISPER_CHANNELS
       /\ a.format = "wav"
    THEN validate_audio_for_whisper(a)
    ELSE IF a.corrupt
    THEN Raised(AudioError(IF a.format = "wav" THEN "AudioFormatError"
                           ELSE "struct.error"))
    ELSE LET n == Resampled(MonoSamples(a), a.sample_rate)
         IN  validate_audio_for_whisper(
                 [sample_rate |-> WHISPER_SAMPLE_RATE,
                  channels |-> WHISPER_CHANNELS,
                  format |-> "wav",
                  nsamples |-> n,
                  corrupt |-> FALSE,
                  duration_ms |-> n \div (WHISPER_SAMPLE_RATE \div 1000)])

ValidationErrors == {"AudioTooShortError", "AudioTooLongError", "AudioFormatError"}

\* mutant: every error of the try block is wrapped
RethrowWrapped(r) ==
    IF r.kind = "ok" THEN r
    ELSE Raised([type |-> "AudioNormalizationError", cause |-> r.error.type])

\* the except clauses of normalize_for_whisper
Rethrow(r) ==
    IF r.kind = "ok" THEN r
    ELSE IF r.error.type \in ValidationErrors THEN r
    ELSE Raised([type |-> "AudioNormalizationError", cause |-> r.error.type])

normalize_for_whisper(a) == Rethrow(NormalizeBody(a))

\* what session.post can do: an HTTP status, a timeout, a network failure
HttpOutcomes == {"200", "401", "429", "500", "timeout", "network"}

\* _transcribe_api_call, the n-th one, the request ending as http
_transcribe_api_call(http, n) ==
    CASE http = "200" -> FuncOk(n)
      [] http = "401" ->
             Raised([type |-> "WhisperAuthenticationError", n |-> n, cause |-> "none"])
      [] http = "429" ->
             Raised([type |-> "WhisperRateLimitError", n |-> n, cause |-> "none"])
      [] http = "500" ->
             Raised([type |-> "WhisperAPIError", n |-> n, cause |-> "none"])
      [] http = "timeout" ->
             Raised([type |-> "WhisperTimeoutError", n |-> n, cause |-> "TimeoutError"])
      [] http = "network" ->
             Raised([type |-> "WhisperAPIError", n |-> n, cause |-> "ClientError"])

\* the retryable_exceptions transcribe passes to retry_async
WhisperRetryable == {"ClientError", "TimeoutError", "WhisperRateLimitError"}

SttStartWarning == [type |-> "STT_START", data |-> "silent_audio_detected"]
SttStartEvent == [type |-> "STT_START", data |-> "audio"]
SttCompleteEvent(v) == [type |-> "STT_COMPLETE", data |-> v]
SttErrorEvent(e) == [type |-> "STT_ERROR", data |-> e.type]

\* the except clauses of transcribe: count, report, re-raise
TranscribeFails(evs, e) ==
    /\ failed_requests' = failed_requests + 1
    /\ sttEvents' = Append(evs, SttErrorEvent(e))
    /\ sttOutcome' = [kind |-> "raised", error |-> e]
    /\ wpc' = "done"

Audios ==
    [sample_rate : {16000, 8000}, channels : {1, 2}, format : {"wav", "pcm"},
     nsamples : {800, 3200, 14000000}, corrupt : BOOLEAN,
     duration_ms : {0, 50}]

\* WhisperSTT(api_key, auto_normalize, retry_config, rate_limit_per_second),
\* retry_config being RetryConfig(max_attempts=m, jitter=False)
InitWhisper ==
    /\ \E m \in 1..MaxAttempts :
          config = [max_attempts |-> m, initial_delay_ms |-> 100,
                    max_delay_ms |-> 10000, exponential_base |-> 2, jitter |-> FALSE]
    /\ retryable_exceptions = WhisperRetryable
    /\ on_retry = TRUE
    /\ rpc = "idle"
    /\ attempt = 0
    /\ last_exception = None
    /\ invocations = <<>>
    /\ retried = <<>>
    /\ sleeps = <<>>
    /\ routcome = [kind |-> "none"]
    /\ \E rate \in {DEFAULT_RATE_LIMIT, (2 * Scale) \div TicksPerSecond} :
          LimiterBuilt(rate, 0)
    /\ wpc = "idle"
    /\ audio \in Audios
    /\ auto_normalize \in BOOLEAN
    /\ sttEvents = <<>>
    /\ sttOutcome = [kind |-> "none"]
    /\ total_requests = 0
    /\ failed_requests = 0
    /\ apiCalls = <<>>
    /\ BusIdle
    /\ HistIdle
    /\ ChunkIdle
    /\ PipeIdle

\* transcribe(audio, observer) up to the acquire call of the rate limiter
WhisperStart ==
    /\ wpc = "idle"
    /\ total_requests' = total_requests + 1
    /\ \E silent \in (IF audio.corrupt THEN {FALSE} ELSE BOOLEAN) :
          LET evs == IF silent THEN <<SttStartWarning>> ELSE <<>>
              r == IF auto_normalize THEN normalize_for_whisper(audio) ELSE Ok(audio)
          IN  IF r.kind = "raise"
              THEN /\ TranscribeFails(evs, r.error)
                   /\ UNCHANGED limVars
              ELSE /\ sttEvents' = Append(evs, SttStartEvent)
                   /\ AcquireCall("a", 1)
                   /\ wpc' = "acquire"
                   /\ UNCHANGED <<failed_requests, sttOutcome>>
    /\ UNCHANGED <<audio, auto_normalize, apiCalls>>
    /\ UNCHANGED <<chunkVars, pipeVars, busVars, histVars, retryVars>>

\* acquire has returned: retry_async is entered and makes the first API call
WhisperAcquired ==
    /\ wpc = "acquire"
    /\ lpc["a"] = "done"
    /\ RetryEnter
    /\ wpc' = "retry"
    /\ UNCHANGED <<audio, auto_normalize, sttEvents, sttOutcome, total_requests,
                   failed_requests, apiCalls>>
    /\ UNCHANGED <<chunkVars, pipeVars, busVars, histVars, limVars>>

\* the request of the pending _transcribe_api_call ends
WhisperApiResponds ==
    /\ wpc = "retry"
    /\ rpc = "call"
    /\ \E http \in HttpOutcomes :
          /\ apiCalls' = Append(apiCalls, http)
          /\ RetryOnResult(_transcribe_api_call(http, Len(invocations) + 1))
    /\ UNCHANGED <<wpc, audio, auto_normalize, sttEvents, sttOutcome, total_requests,
                   failed_requests>>
    /\ UNCHANGED <<chunkVars, pipeVars, busVars, histVars, limVars>>

\* retry_async has returned or raised: the rest of transcribe
WhisperFinish ==
    /\ wpc = "retry"
    /\ rpc = "done"
    /\ IF routcome.kind = "returned"
       THEN /\ sttEvents' = Append(sttEvents, SttCompleteEvent(routcome.value))
            /\ sttOutcome' = routcome
            /\ wpc' = "done"
            /\ UNCHANGED failed_requests
       ELSE TranscribeFails(sttEvents, routcome.error)
    /\ UNCHANGED <<audio, auto_normalize, total_requests, apiCalls>>
    /\ UNCHANGED <<chunkVars, pipeVars, busVars, histVars, retryVars, limVars>>

NextWhisper ==
    \/ WhisperStart
    \/ WhisperAcquired
    \/ WhisperApiResponds
    \/ WhisperFinish
    \/ RetryWake
    \/ LimWake
    \/ Tick

SpecWhisper == InitWhisper /\ [][NextWhisper]_vars

(***************************************************************************)
(* Edge-case texts under any tokenization                                  *)
(***************************************************************************)
\* The value is 3.14. Next sentence.
DecimalText ==
    <<"T","h","e"," ","v","a","l","u","e"," ","i","s"," ","3",".","1","4",
      "."," ","N","e","x","t"," ","s","e","n","t","e","n","c","e",".">>

\* Visit www.example.com. Done.
UrlText ==
    <<"V","i","s","i","t"," ","w","w","w",".","e","x","a","m","p","l","e",
      ".","c","o","m","."," ","D","o","n","e",".">>

\* Dr. Smith arrived.
AbbreviationText ==
    <<"D","r","."," ","S","m","i","t","h"," ","a","r","r","i","v","e","d",
      ".">>

\* Wait... then go.
EllipsisText ==
    <<"W","a","i","t",".",".","."," ","t","h","e","n"," ","g","o",".">>

\* Dr. Smith said, "The value is 3.14!" Really?!
QuotedSpeechText ==
    <<"D","r","."," ","S","m","i","t","h"," ","s","a","i","d",","," ","\"",
      "T","h","e"," ","v","a","l","u","e"," ","i","s"," ","3",".","1","4",
      "!","\""," ","R","e","a","l","l","y","?","!">>

\* He said "Stop. Go now." Then left.
QuotedSentencesText ==
    <<"H","e"," ","s","a","i","d"," ","\"","S","t","o","p","."," ","G","o",
      " ","n","o","w",".","\""," ","T","h","e","n"," ","l","e","f","t",".">>

EdgeTexts ==
    {DecimalText, UrlText, AbbreviationText, EllipsisText, QuotedSpeechText,
     QuotedSentencesText, HelloText}

DefaultMinLen == 10

InitEdgeCases ==
    /\ kind \in {"basic", "fixed"}
    /\ minLen \in {HelloMinLen, DefaultMinLen}
    /\ text \in EdgeTexts
    /\ tokens = <<text>>
    /\ buffer = <<>>
    /\ emitted = <<>>
    /\ exhausted = FALSE
    /\ PipeIdle
    /\ ResIdle

\* chunk_stream receives the next token: any non-empty prefix of the text that
\* is still to come
ChunkPiece ==
    /\ ~exhausted
    /\ tokens # <<>>
    /\ \E n \in 1..Len(Head(tokens)) :
          LET r == OnToken(kind, buffer, SubSeq(Head(tokens), 1, n), minLen)
          IN  /\ buffer' = r.buffer
              /\ emitted' = emitted \o r.out
              /\ tokens' = IF n = Len(Head(tokens)) THEN <<>>
                            ELSE <<Drop(Head(tokens), n)>>
    /\ UNCHANGED <<kind, minLen, text, exhausted>>
    /\ UNCHANGED pipeVars
    /\ UNCHANGED resVars

NextEdgeCases == ChunkPiece \/ ChunkFinish

SpecEdgeCases == InitEdgeCases /\ [][NextEdgeCases]_vars

(***************************************************************************)
(* The event bus: InMemoryEventObserver (src/core/events.py)               *)
(***************************************************************************)
\* the values of the EventType members; a member of this str enum is its value
EventTypeValues ==
    {"audio_capture_start", "audio_capture_complete", "stt_start", "stt_complete",
     "stt_error", "llm_query_start", "llm_token_received", "llm_complete",
     "llm_error", "sentence_ready", "tts_start", "tts_complete", "tts_error",
     "pipeline_start", "pipeline_complete", "pipeline_error"}

\* EventType(v): the member with that value, or ValueError
EventType(v) == IF v \in EventTypeValues THEN Ok(v) ELSE Raised("ValueError")

\* the event_type arguments emit is called with: members, the string of a member,
\* and the string wake/wake_word.py names, which no member has
EmitKinds ==
    {[is_member |-> TRUE, value |-> "stt_start"],
     [is_member |-> TRUE, value |-> "stt_complete"],
     [is_member |-> FALSE, value |-> "stt_complete"],
     [is_member |-> FALSE, value |-> "wake_word_detected"]}

\* the data arguments: None or a dict of the caller
Payloads == {"None", "dict"}

\* data or {}
DataOr(p) == IF p = "None" THEN "empty" ELSE p

\* how a registered callback behaves when it is called
Behaviours == {"ok", "raise"}

\* self.events
bus_events == lists[1]

\* the items of a list
Range(l) == {l[i] : i \in 1..Len(l)}

\* the PipelineEvent objects a list holds, as they are now
Deref(l) == [i \in 1..Len(l) |-> heap[l[i]]]

\* for callback in self._callbacks: callback(event) -- the index of the callback
\* whose exception ends the loop, 0 when the loop runs to its end
FirstRaising(cbs) ==
    IF \E i \in 1..Len(cbs) : cbs[i] = "raise"
    THEN Min({i \in 1..Len(cbs) : cbs[i] = "raise"})
    ELSE 0

\* on_event(callback)
OnEvent ==
    /\ Len(_callbacks) < MaxListeners
    /\ \E b \in Behaviours : _callbacks' = Append(_callbacks, b)
    /\ UNCHANGED <<heap, lists, emitResult, emitLog, snapshot, wall,
                   breakdown>>
    /\ UNCHANGED <<chunkVars, pipeVars, retryVars, limVars, sttVars, histVars>>

\* emit(event_type, data)
Emit ==
    /\ Len(heap) < MaxEmits
    /\ \E k \in EmitKinds, p \in Payloads :
          LET t == EventType(k.value) IN
          IF t.kind = "raise"
          THEN /\ emitResult' = [kind |-> "raised", error |-> t.error, event |-> 0,
                                 listeners |-> Len(_callbacks), notified |-> 0,
                                 recorded |-> FALSE]
               /\ UNCHANGED <<heap, lists, emitLog>>
          ELSE LET event == [timestamp |-> wall, event_type |-> t.value,
                             data |-> DataOr(p)]
                   id == Len(heap) + 1
                   r == FirstRaising(_callbacks)
               IN  /\ heap' = Append(heap, event)
                   /\ lists' = [lists EXCEPT ![1] = Append(@, id)]
                   /\ emitLog' = Append(emitLog, [id |-> id, event |-> event])
                   /\ emitResult' =
                         IF r = 0
                         THEN [kind |-> "returned", error |-> "", event |-> id,
                               listeners |-> Len(_callbacks),
                               notified |-> Len(_callbacks),
                               recorded |-> id \in Range(lists'[1])]
                         ELSE [kind |-> "raised", error |-> "CallbackError",
                               event |-> id, listeners |-> Len(_callbacks),
                               notified |-> r,
                               recorded |-> id \in Range(lists'[1])]
    /\ UNCHANGED <<_callbacks, snapshot, wall, breakdown>>
    /\ UNCHANGED <<chunkVars, pipeVars, retryVars, limVars, sttVars, histVars>>

\* list.copy(): a new list object with the same items
list_same(ls, l) == [lists |-> ls, id |-> l]
list_copy(ls, l) == [lists |-> Append(ls, ls[l]), id |-> Len(ls) + 1]

\* get_events(); the list an earlier call returned is dropped by its caller
GetEvents ==
    /\ LET r == list_copy(<<bus_events>>, 1) IN
          /\ lists' = r.lists
          /\ snapshot' = r.id
    /\ UNCHANGED <<heap, _callbacks, emitResult, emitLog, wall, breakdown>>
    /\ UNCHANGED <<chunkVars, pipeVars, retryVars, limVars, sttVars, histVars>>

\* the caller of get_events removes the first item of the list it got
SnapshotRemove ==
    /\ snapshot # 0
    /\ lists[snapshot] # <<>>
    /\ lists' = [lists EXCEPT ![snapshot] = Tail(@)]
    /\ UNCHANGED <<snapshot, heap, _callbacks, emitResult, emitLog, wall, breakdown>>
    /\ UNCHANGED <<chunkVars, pipeVars, retryVars, limVars, sttVars, histVars>>

\* the caller of get_events assigns to the data of an item of the list it got
\* (PipelineEvent is a dataclass that is not frozen)
SnapshotMutateEvent ==
    /\ snapshot # 0
    /\ \E i \in 1..Len(lists[snapshot]) :
          /\ heap[lists[snapshot][i]].data # "changed"
          /\ heap' = [heap EXCEPT ![lists[snapshot][i]].data = "changed"]
    /\ UNCHANGED <<lists, _callbacks, emitResult, emitLog, snapshot, wall, breakdown>>
    /\ UNCHANGED <<chunkVars, pipeVars, retryVars, limVars, sttVars, histVars>>

\* clear()
Clear ==
    /\ bus_events # <<>>
    /\ lists' = [lists EXCEPT ![1] = <<>>]
    /\ emitLog' = <<>>
    /\ UNCHANGED <<heap, _callbacks, emitResult, snapshot, wall, breakdown>>
    /\ UNCHANGED <<chunkVars, pipeVars, retryVars, limVars, sttVars, histVars>>

\* get_events_by_type(event_type) on a list of events
get_events_by_type(evs, t) == SelectSeq(evs, LAMBDA e : e.event_type = t)

\* the pairs of get_latency_breakdown: stage name, start type, end type
LatencyPairs ==
    {<<"stt", "stt_start", "stt_complete">>,
     <<"llm_first_token", "llm_query_start", "llm_token_received">>,
     <<"llm_total", "llm_query_start", "llm_complete">>,
     <<"tts", "tts_start", "tts_complete">>,
     <<"pipeline_total", "pipeline_start", "pipeline_complete">>}

\* get_latency_breakdown() on a list of events: stage name -> latency in ms
get_latency_breakdown(evs) ==
    LET reported == {p \in LatencyPairs :
                        /\ get_events_by_type(evs, p[2]) # <<>>
                        /\ get_events_by_type(evs, p[3]) # <<>>}
    IN  [n \in {p[1] : p \in reported} |->
            LET p == CHOOSE q \in reported : q[1] = n
            IN  (Last(get_events_by_type(evs, p[3])).timestamp
                 - Last(get_events_by_type(evs, p[2])).timestamp) * 1000]

\* a call of get_latency_breakdown()
GetLatency ==
    /\ breakdown' = [called |-> TRUE, latencies |-> get_latency_breakdown(Deref(bus_events))]
    /\ UNCHANGED <<heap, lists, _callbacks, emitResult, emitLog, snapshot, wall>>
    /\ UNCHANGED <<chunkVars, pipeVars, retryVars, limVars, sttVars, histVars>>

\* time.time() moves on
WallTick ==
    /\ wall < MaxWall
    /\ wall' = wall + 1
    /\ UNCHANGED <<heap, lists, _callbacks, emitResult, emitLog, snapshot, breakdown>>
    /\ UNCHANGED <<chunkVars, pipeVars, retryVars, limVars, sttVars, histVars>>

InitEvents ==
    /\ BusIdle
    /\ HistIdle
    /\ RetryIdle
    /\ LimIdle
    /\ SttIdle
    /\ ChunkIdle
    /\ PipeIdle

\* listeners are registered and events emitted
NextEmit ==
    \/ OnEvent
    \/ Emit
    \/ Clear

SpecEmit == InitEvents /\ [][NextEmit]_vars

\* events are emitted and the recorded list is asked for and used; listeners
\* run after the append and never touch the list, so none is registered here
NextGetEvents ==
    \/ Emit
    \/ GetEvents
    \/ SnapshotRemove
    \/ SnapshotMutateEvent
    \/ Clear

SpecGetEvents == InitEvents /\ [][NextGetEvents]_vars

\* events are emitted as time passes and the latencies are asked for
NextLatency ==
    \/ Emit
    \/ WallTick
    \/ GetLatency
    \/ Clear

SpecLatency == InitEvents /\ [][NextLatency]_vars

(***************************************************************************)
(* ClaudeAPI: the conversation history (src/llm/claude_api.py)             *)
(***************************************************************************)
MAX_HISTORY_TURNS == 50

\* conversation_history[-MAX_HISTORY_TURNS:]
LastTurns(h) ==
    IF Len(h) > MAX_HISTORY_TURNS
    THEN SubSeq(h, Len(h) - MAX_HISTORY_TURNS + 1, Len(h))
    ELSE h

\* query_stream(text) up to the request: the user message is appended, the
\* history trimmed
QueryStart ==
    /\ qpc = "idle"
    /\ queries < MaxQueries
    /\ queries' = queries + 1
    /\ conversation_history' =
          LastTurns(Append(conversation_history,
                           [role |-> "user", turn |-> queries + 1]))
    /\ qpc' = "streaming"
    /\ UNCHANGED failures
    /\ UNCHANGED <<chunkVars, pipeVars, retryVars, limVars, sttVars, busVars>>

\* the stream ends normally: the assistant message is appended
QueryCompletes ==
    /\ qpc = "streaming"
    /\ conversation_history' =
          Append(conversation_history, [role |-> "assistant", turn |-> queries])
    /\ qpc' = "idle"
    /\ UNCHANGED <<queries, failures>>
    /\ UNCHANGED <<chunkVars, pipeVars, retryVars, limVars, sttVars, busVars>>

\* the call ends without a complete response (the API raises, asyncio.timeout
\* fires, the consumer is cancelled or closes the generator): the exception
\* leaves query_stream, the history stays as it is
QueryFails ==
    /\ qpc = "streaming"
    /\ failures < MaxFailures
    /\ qpc' = "idle"
    /\ failures' = failures + 1
    /\ UNCHANGED <<conversation_history, queries>>
    /\ UNCHANGED <<chunkVars, pipeVars, retryVars, limVars, sttVars, busVars>>

InitHistory ==
    /\ HistIdle
    /\ BusIdle
    /\ RetryIdle
    /\ LimIdle
    /\ SttIdle
    /\ ChunkIdle
    /\ PipeIdle

NextHistory ==
    \/ QueryStart
    \/ QueryCompletes
    \/ QueryFails

SpecHistory == InitHistory /\ [][NextHistory]_vars

(***************************************************************************)
(* Properties                                                              *)
(***************************************************************************)
IsLower(c) == \E i \in 1..Len(LowerSeq) : LowerSeq[i] = c

\* t is sentences joined by single spaces; a sentence starts with a capital,
\* holds letters and single spaces, and ends with its only terminator
WellFormed(t) ==
    /\ t # <<>>
    /\ IsUpper(t[1])
    /\ IsTerminator(t[Len(t)])
    /\ \A i \in 1..Len(t) : IsUpper(t[i]) \/ IsLower(t[i]) \/ t[i] = " " \/ IsTerminator(t[i])
    /\ \A i \in 1..Len(t) :
          t[i] = " " => i > 1 /\ i < Len(t) /\ t[i - 1] # " " /\ t[i + 1] # " "
    /\ \A i \in 1..(Len(t) - 1) :
          IsTerminator(t[i]) => t[i + 1] = " " /\ IsUpper(t[i + 2])

Trimmed(ss) == [i \in 1..Len(ss) |-> Strip(ss[i])]

TaskSentences == [i \in 1..Len(tasks) |-> tasks[i].sentence]
SentenceEventTexts ==
    LET idx == {k \in 1..Len(events) : events[k].type = "SENTENCE_READY"}
        RECURSIVE Pick(_)
        Pick(k) == IF k > Len(events) THEN <<>>
                   ELSE IF k \in idx THEN <<events[k].data.sentence>> \o Pick(k + 1)
                   ELSE Pick(k + 1)
    IN  Pick(1)
HasEvent(ty) == \E k \in 1..Len(events) : events[k].type = ty
NTerminal ==
    Cardinality({k \in 1..Len(events) :
                    events[k].type \in {"PIPELINE_COMPLETE", "PIPELINE_ERROR"}})
NStart == Cardinality({k \in 1..Len(events) : events[k].type = "PIPELINE_START"})
Running == {i \in 1..Len(tasks) : tasks[i].state = "running"}

\* C1: once the stream is exhausted, the emitted sentences of a well-formed
\* text, trimmed and joined with single spaces, are the text itself
C1_Lossless ==
    (exhausted /\ WellFormed(text)) => JoinSpace(Trimmed(emitted)) = text

\* C2: after the run has ended, every synthesis task that failed has had its
\* failure reported: it is the error raised to the caller, or it is in a
\* PIPELINE_ERROR event
C2_FailedTaskReported ==
    pc = "done" =>
        \A i \in Failed(tasks) :
            \/ outcome.kind = "raised" /\ outcome.error = TaskError(i)
            \/ \E k \in 1..Len(events) : events[k] = ErrorEvent(TaskError(i))

\* C3: if PIPELINE_COMPLETE is in the log, the token stream is exhausted, the
\* final sentence has been emitted, every emitted sentence has its task and
\* every task has returned (so none completes after the event)
C3_CompleteAfterAllDone ==
    HasEvent("PIPELINE_COMPLETE") =>
        /\ tokens = <<>>
        /\ exhausted
        /\ Len(tasks) = Len(emitted)
        /\ \A i \in 1..Len(tasks) : tasks[i].state = "ok"

C3_Witness ==
    /\ HasEvent("PIPELINE_COMPLETE")
    /\ Len(tasks) >= 2

\* C4: the tasks, in dispatch order, carry exactly the emitted sentences in
\* emission order, one task each; the sentence-ready events are in the same
\* order, and the tokens not yet consumed are always the tail of the stream
C4_OneTaskPerSentenceInOrder ==
    /\ TaskSentences = emitted
    /\ SentenceEventTexts = emitted
    /\ EndsWith(text, Concat(tokens))

C4_Witness ==
    /\ Len(tasks) >= 2
    /\ tasks[1].sentence # tasks[2].sentence

\* C5: while the token stream is open and the run has not ended, the run is
\* suspended on the token stream and on nothing else, whatever state its
\* synthesis tasks are in: the next token is taken as soon as it arrives
C5_TokensNotBlocked ==
    (llmCalled /\ ~exhausted /\ pc # "done") => pc = "stream"

C5_Witness ==
    /\ pc = "stream"
    /\ tokens # <<>>
    /\ Cardinality(Running) >= 2

C7_NoTaskOutlivesRun ==
    pc = "done" => Running = {}

\* C8: a cancelled run has ended, its caller got the cancellation, and the
\* log holds no PIPELINE_ERROR event
C8_CancellationIsDistinct ==
    cancelled =>
        /\ pc = "done"
        /\ outcome = [kind |-> "raised", error |-> CancelledError]
        /\ ~HasEvent("PIPELINE_ERROR")

C8_Witness ==
    /\ cancelled
    /\ \E i \in 1..Len(tasks) : tasks[i].state = "cancelled"

\* C9: when stt.transcribe has returned an empty or whitespace-only
\* transcript, the LLM is not called, no task is dispatched and the
\* empty-transcript failure event is in the log
C9_EmptyTranscriptFailsFast ==
    (sttResult[1] = "ok" /\ Strip(sttResult[2]) = <<>>) =>
        /\ ~llmCalled
        /\ tasks = <<>>
        /\ \E k \in 1..Len(events) : events[k] = EmptyTranscriptEvent

HelloSentences ==
    << <<"H","e","l","l","o","!">>,
       <<"H","o","w"," ","a","r","e"," ","y","o","u","?">>,
       <<"F","i","n","e",".">> >>

\* C11: a run on the response "Hello! How are you? Fine." with
\* min_sentence_length 5 that reached PIPELINE_COMPLETE emitted exactly the
\* three sentences, with one sentence-ready event and one task per sentence
\* in that order, and no PIPELINE_ERROR event
C11_HelloScenario ==
    (text = HelloText /\ minLen = HelloMinLen /\ HasEvent("PIPELINE_COMPLETE")) =>
        /\ emitted = HelloSentences
        /\ SentenceEventTexts = HelloSentences
        /\ TaskSentences = HelloSentences
        /\ ~HasEvent("PIPELINE_ERROR")

(***************************************************************************)
(* retry_async                                                             *)
(***************************************************************************)
\* func raised, and no class of retryable_exceptions is a base of the error
NotRetryable(res) ==
    /\ res.kind = "raise"
    /\ \A d \in retryable_exceptions : ~IsSubclass(res.error.type, d)

\* func raised an error that retryable_exceptions covers
RetryableFailure(res) ==
    /\ res.kind = "raise"
    /\ \E d \in retryable_exceptions : IsSubclass(res.error.type, d)

AllRetryableFailures == \A i \in 1..Len(invocations) : RetryableFailure(invocations[i])

\* C12: func is never invoked more than max_attempts times; and when
\* retry_async has finished and every invocation failed with a retryable
\* error, func was invoked exactly max_attempts times and the caller got the
\* error object of the last invocation itself (max_attempts >= 1).
C12_Exhaustion ==
    /\ Len(invocations) <= config.max_attempts
    /\ (rpc = "done" /\ AllRetryableFailures) =>
          /\ Len(invocations) = config.max_attempts
          /\ invocations # <<>> => routcome = [kind |-> "raised",
                                               error |-> Last(invocations).error]

C12_Witness ==
    /\ rpc = "done"
    /\ config.max_attempts = 3
    /\ Len(invocations) = 3
    /\ AllRetryableFailures
    /\ routcome = [kind |-> "raised", error |-> [type |-> "ValueError", n |-> 3]]

\* C13: a successful invocation is the last one: every invocation before it
\* was a retryable failure, retry_async is finished, and the caller got the
\* value that invocation returned (the value of invocation k+1 after k
\* failures).
C13_Success ==
    \A i \in 1..Len(invocations) :
        invocations[i].kind = "ok" =>
            /\ i = Len(invocations)
            /\ rpc = "done"
            /\ routcome = [kind |-> "returned", value |-> i]
            /\ \A j \in 1..(i - 1) : RetryableFailure(invocations[j])

C13_Witness ==
    /\ rpc = "done"
    /\ config.max_attempts = 3
    /\ Len(invocations) = 3
    /\ invocations[1].kind = "raise"
    /\ invocations[2].kind = "raise"
    /\ invocations[3].kind = "ok"

\* C14: an invocation that fails with a non-retryable error is the last
\* one: retry_async is finished, the caller got that error, and neither a
\* backoff suspension nor an on_retry call was made for it, whatever
\* max_attempts is.
C14_NonRetryableImmediate ==
    \A i \in 1..Len(invocations) :
        NotRetryable(invocations[i]) =>
            /\ i = Len(invocations)
            /\ rpc = "done"
            /\ routcome = [kind |-> "raised", error |-> invocations[i].error]
            /\ Len(sleeps) = i - 1
            /\ Len(retried) = IF on_retry THEN i - 1 ELSE 0

C14_Witness ==
    /\ rpc = "done"
    /\ config.max_attempts = 3
    /\ Len(invocations) = 2
    /\ RetryableFailure(invocations[1])
    /\ NotRetryable(invocations[2])

\* the failed retryable attempts that were followed by another attempt
Retries ==
    IF rpc = "done" /\ invocations # <<>>
    THEN Len(invocations) - 1
    ELSE Len(invocations)

\* C15: the on_retry calls made so far are exactly, in order, one per failed
\* retryable attempt that is followed by another attempt, with that
\* attempt's error and its 1-based number; the attempt that ended
\* retry_async (success, non-retryable failure, exhaustion) got none.
C15_CallbackPerRetry ==
    retried = IF on_retry
              THEN [i \in 1..Retries |-> <<invocations[i].error, i>>]
              ELSE <<>>

C15_Witness ==
    /\ on_retry
    /\ rpc = "done"
    /\ Len(invocations) = 3
    /\ Len(retried) = 2
    /\ invocations[3].kind = "raise"

\* C16: with jitter disabled the k-th suspension (k = 1, 2, ...) lasts
\* min(max_delay_ms, initial_delay_ms * exponential_base^(k-1)); the delays
\* are non-decreasing, none exceeds max_delay_ms, and there is one
\* suspension per retry, none after the attempt that ended retry_async.
C16_BackoffDelay ==
    ~config.jitter =>
        /\ Len(sleeps) = Retries
        /\ \A k \in 1..Len(sleeps) :
              LET d == config.initial_delay_ms * Pow(config.exponential_base, k - 1)
              IN  /\ sleeps[k] = IF d <= config.max_delay_ms THEN d
                                 ELSE config.max_delay_ms
                  /\ sleeps[k] <= config.max_delay_ms
                  /\ k > 1 => sleeps[k - 1] <= sleeps[k]

C16_Witness ==
    /\ ~config.jitter
    /\ config.exponential_base = 3
    /\ rpc = "done"
    /\ sleeps = <<100, 200>>

(***************************************************************************)
(* RateLimiter                                                             *)
(***************************************************************************)
\* C19: at any time, the tokens granted since the limiter was created (at
\* tick 0) are at most capacity + rate * elapsed; so granting more than the
\* capacity takes at least (granted - capacity) / rate.
C19_TokenBucketBound ==
    granted * Scale <= bucket_size * Scale + tokens_per_second * now

\* capacity 2, rate 2 per second, 4 tokens granted, after exactly one second
C19_Witness ==
    /\ bucket_size = 2
    /\ tokens_per_second * TicksPerSecond = 2 * Scale
    /\ granted = 4
    /\ now = TicksPerSecond

InSection == {c \in Callers : lpc[c] = "sleeping"}

\* C20: at most one caller is suspended inside the locked section of
\* acquire; while it is there the lock is held and it is the one that last
\* assigned tokens and last_update; the bucket never goes negative or above
\* capacity, and every granted token was debited from it exactly once.
C20_Serialized ==
    /\ Cardinality(InSection) <= 1
    /\ \A c \in InSection : locked /\ writer = c
    /\ ltokens >= 0
    /\ ltokens <= bucket_size * Scale
    /\ granted * Scale + ltokens <= bucket_size * Scale + tokens_per_second * last_update

\* one caller sleeps inside the section while the other waits on the lock,
\* after tokens were granted
C20_Witness ==
    /\ lpc["a"] = "sleeping"
    /\ lpc["b"] = "waiting"
    /\ granted > 0

(***************************************************************************)
(* WhisperSTT.transcribe                                                   *)
(***************************************************************************)
\* how a request ends when the failure is transient: a network failure, a
\* timeout, an upstream rate limit
TransientOutcomes == {"network", "timeout", "429"}

\* C17: when transcribe has finished and every API request it made ended in
\* a transient failure, it made max_attempts requests: each transient
\* failure before the last allowed attempt was followed by another attempt.
C17_TransientRetried ==
    ( /\ wpc = "done"
      /\ apiCalls # <<>>
      /\ \A i \in 1..Len(apiCalls) : apiCalls[i] \in TransientOutcomes )
    => Len(apiCalls) = config.max_attempts

\* C18: when normalization is on and the audio fails validation inside
\* normalize_for_whisper, transcribe ends at once with that very error: no
\* API request, no retry_async call, no acquire call, the bucket untouched;
\* the failure is counted and reported once.
C18_ValidationNotRetried ==
    LET r == NormalizeBody(audio)
    IN  ( /\ auto_normalize
          /\ wpc # "idle"
          /\ r.kind = "raise"
          /\ r.error.type \in ValidationErrors )
        => /\ wpc = "done"
           /\ sttOutcome = [kind |-> "raised", error |-> r.error]
           /\ apiCalls = <<>>
           /\ invocations = <<>>
           /\ rpc = "idle"
           /\ sleeps = <<>>
           /\ acquires = 0
           /\ granted = 0
           /\ ltokens = bucket_size * Scale
           /\ failed_requests = 1
           /\ Last(sttEvents) = [type |-> "STT_ERROR", data |-> r.error.type]

\* audio at 8 kHz that is too short once resampled
C18_Witness ==
    /\ wpc = "done"
    /\ auto_normalize
    /\ audio.sample_rate = 8000
    /\ ~audio.corrupt
    /\ sttOutcome.kind = "raised"
    /\ sttOutcome.error.type = "AudioTooShortError"

\* C21: the bucket holds between 0 and capacity tokens in every reachable
\* state: a refill never lifts it above bucket_size, a debit never takes it
\* below zero.
C21_TokensWithinCapacity ==
    /\ 0 <= ltokens
    /\ ltokens <= bucket_size * Scale

\* the bucket is full again after a grant, although more time has passed
\* than it takes to refill what was granted
C21_Witness ==
    /\ bucket_size > 0
    /\ granted > 0
    /\ ltokens = bucket_size * Scale
    /\ last_update * tokens_per_second > granted * Scale

\* C22: the capacity of a limiter is strictly positive, also when
\* bucket_size is omitted and the rate is below one token per second.
C22_CapacityPositive == bucket_size > 0

\* caller c is inside an acquire call that has not returned
Pending(c) == lpc[c] \in {"waiting", "woken", "sleeping"}

\* every acquire call in progress asks for no more than the capacity
AllWithinCapacity == \A d \in Callers : Pending(d) => lneed[d] <= bucket_size

CallSuspends(c) ==
    /\ lpc[c] \in {"idle", "done"}
    /\ lpc'[c] \in {"waiting", "sleeping"}

\* in this step caller c ran a pass of the loop of acquire that ended in
\* asyncio.sleep
PassSleeps(c) ==
    /\ lpc'[c] = "sleeping"
    /\ lpc[c] # "sleeping" \/ lwake'[c] # lwake[c]

\* C24 as stated: an acquire(n) call made while the refilled token count is
\* at least n returns without suspending.
C24_NotDelayed ==
    [][\A c \in Callers :
          CallSuspends(c) => Refilled(now) < lneed'[c] * Scale]_vars

\* the acquire calls made so far asked for one token each, and there were at
\* most bucket_size of them
OnlyFirstSingles ==
    /\ acquires <= bucket_size
    /\ \A c \in Callers : lneed[c] <= 1
    /\ granted = acquires - Cardinality({c \in Callers : Pending(c)})

\* C24 amended: a pass of the loop ends in a sleep only when the refilled
\* token count is below n, and a call queues on the lock only when the lock
\* is held or has waiters; so a call that finds the lock free and at least
\* n tokens returns without suspending.  The first bucket_size single-token
\* calls on a fresh limiter all return at once.
C24_NotDelayedWhenFree ==
    /\ [](OnlyFirstSingles => \A c \in Callers : ~Pending(c))
    /\ [][\A c \in Callers :
            /\ PassSleeps(c) => Refilled(now) < lneed'[c] * Scale
            /\ (CallSuspends(c) /\ lpc'[c] = "waiting") =>
                   (locked \/ waiters # <<>>)]_vars

\* a fresh limiter of capacity 2 has granted two single-token calls at
\* creation time
C24_Witness ==
    /\ bucket_size = 2
    /\ now = 0
    /\ acquires = 2
    /\ granted = 2
    /\ lpc["a"] = "done"
    /\ lpc["b"] = "done"

\* C25: when a registered listener raises while an emit is handled, the event
\* is still recorded and every registered listener is still called for it: all
\* the listeners registered at the emit were invoked.
C25_ListenersIsolated ==
    emitResult.error = "CallbackError" =>
        /\ emitResult.recorded
        /\ emitResult.notified = emitResult.listeners

\* C26: emit never fails: whatever the kind (member or string), the payload
\* and the listeners, the call returns normally to its caller.
C26_EmitNeverFails == emitResult.kind # "raised"

\* the ids and the events the emits since the last clear recorded
EmittedIds == [i \in 1..Len(emitLog) |-> emitLog[i].id]
EmittedEvents == [i \in 1..Len(emitLog) |-> emitLog[i].event]

MatchedPair(lat, evs, p) ==
    \E i, j \in 1..Len(evs) :
        /\ i < j
        /\ evs[i].event_type = p[2]
        /\ evs[j].event_type = p[3]
        /\ lat[p[1]] = (evs[j].timestamp - evs[i].timestamp) * 1000

\* C28: get_latency_breakdown reports a stage only when a completion event is
\* matched with a start event of the stage that precedes it in the log, and the
\* value is the completion time minus that start's time, never negative.
C28_LatencyOfMatchedPair ==
    [][GetLatency =>
          \A p \in LatencyPairs :
              p[1] \in DOMAIN breakdown'.latencies =>
                  /\ breakdown'.latencies[p[1]] >= 0
                  /\ MatchedPair(breakdown'.latencies, Deref(bus_events), p)]_vars

\* the dots of a text at which no sentence may end
InDecimal(t, p) ==
    /\ 1 < p /\ p < Len(t)
    /\ IsDigit(t[p - 1]) /\ IsDigit(t[p + 1])

InUrl(t, p) ==
    /\ p < Len(t) /\ ~IsSpace(t[p + 1])
    /\ \E i \in 1..p :
          /\ StartsWithAt(Lower(t), i, <<"w","w","w",".">>)
          /\ i + 3 <= p
          /\ \A j \in i..p : ~IsSpace(t[j])

AfterAbbreviation(t, p) ==
    /\ p < Len(t)
    /\ \E abbr \in BasicAbbreviations :
          /\ EndsWith(Lower(SubSeq(t, 1, p)), abbr)
          /\ p = Len(abbr) \/ IsSpace(t[p - Len(abbr)])

InEllipsis(t, p) == p < Len(t) /\ t[p + 1] = "."

ExcludedDot(t, p) ==
    /\ t[p] = "."
    /\ InDecimal(t, p) \/ InUrl(t, p) \/ AfterAbbreviation(t, p) \/ InEllipsis(t, p)

\* the sentence s ends at position p of the text t
EndsAt(s, t, p) == s # <<>> /\ EndsWith(SubSeq(t, 1, p), s)

\* C29: whatever the tokenization, no emitted sentence ends at a dot inside a
\* decimal number, inside a URL, directly after a known abbreviation, or at the
\* first or second dot of an ellipsis.
C29_NoSplitAtExcludedDot ==
    \A k \in 1..Len(emitted) : \A p \in 1..Len(text) :
        ExcludedDot(text, p) => ~EndsAt(emitted[k], text, p)

\* position p of t lies between an opening quote and its closing quote
InsideQuotes(t, p) == _is_inside_quotes(SubSeq(t, 1, p))

\* C30: text inside quotes is never split: no sentence emitted by the
\* chunker with the quote rule ends between an opening quote and its closing
\* quote.
C30_NoSplitInsideQuotes ==
    kind = "fixed" =>
        \A k \in 1..Len(emitted) : \A p \in 1..(Len(text) - 1) :
            InsideQuotes(text, p) => ~EndsAt(emitted[k], text, p)

\* the SENTENCE_READY events so far, in order
SentenceReadyEvents == SelectSeq(events, LAMBDA e : e.type = "SENTENCE_READY")
IsFinalEvent(e) == "final" \in DOMAIN e.data
FinalEvents == SelectSeq(SentenceReadyEvents, IsFinalEvent)

\* C31: every sentence emitted before the stream is exhausted is at least
\* min_sentence_length long; on exhaustion a remainder that is non-empty after
\* trimming is emitted exactly once, whatever its length, as the last sentence
\* with its event flagged final; an empty or whitespace-only remainder emits
\* nothing.
C31_MinLengthAndFinal ==
    /\ Len(SentenceReadyEvents) = Len(emitted)
    /\ \A k \in 1..Len(emitted) :
          ~IsFinalEvent(SentenceReadyEvents[k]) => Len(emitted[k]) >= minLen
    /\ ~exhausted => FinalEvents = <<>>
    /\ exhausted =>
          IF Strip(buffer) # <<>>
          THEN /\ FinalEvents = <<FinalSentenceEvent(Strip(buffer))>>
               /\ Last(SentenceReadyEvents) = FinalSentenceEvent(Strip(buffer))
               /\ Last(emitted) = Strip(buffer)
          ELSE FinalEvents = <<>>

\* a run with a sentence emitted mid-stream and a final one shorter than the
\* minimum
C31_Witness ==
    /\ exhausted
    /\ Len(emitted) >= 2
    /\ Len(Last(emitted)) < minLen
    /\ IsFinalEvent(Last(SentenceReadyEvents))

\* C32: extraction is repeated on the remainder before the next token is
\* pulled: once a token has been handled, extracting again from the buffer that
\* is left, with nothing added to it, yields no further sentence.
C32_ExtractionRepeated ==
    ~exhausted => OnToken(kind, buffer, <<>>, minLen).out = <<>>

\* rules 1-5 of _extract_sentences keep the text t buffered
Suppressed(t) ==
    \/ _is_inside_quotes(t)
    \/ _ends_with_decimal(t)
    \/ _ends_with_url(t)
    \/ _ends_with_incomplete_ellipsis(t)
    \/ _ends_with_abbreviation(t)

\* C33: a terminator at the end of the buffer is a boundary: once a token has
\* been handled by the chunker with the rules, the buffer is never left ending
\* at a terminator that no rule suppresses with a candidate of at least
\* min_sentence_length -- that sentence was emitted on the token.
C33_EndOfBufferBoundary ==
    (kind = "fixed" /\ ~exhausted /\ buffer # <<>>) =>
        ~ /\ IsTerminator(Last(buffer))
          /\ ~Suppressed(buffer)
          /\ ~_is_false_boundary(buffer)
          /\ Len(Strip(buffer)) >= minLen

\* C34: the conversation history is bounded: after any append, of a user or of
\* an assistant turn, it holds at most MAX_HISTORY_TURNS messages.
C34_HistoryBounded == Len(conversation_history) <= MAX_HISTORY_TURNS

\* C40: after any sequence of query_stream calls the history begins with a
\* user turn and strictly alternates user, assistant, user, ...
C40_RolesAlternate ==
    \A i \in 1..Len(conversation_history) :
        conversation_history[i].role = (IF i % 2 = 1 THEN "user" ELSE "assistant")

\* the audio is in the target format already: normalize_for_whisper validates
\* it and returns it
InTargetFormat(a) ==
    /\ a.sample_rate = WHISPER_SAMPLE_RATE
    /\ a.channels = WHISPER_CHANNELS
    /\ a.format = "wav"

\* the duration of the samples a buffer holds, in ms
ActualDurationMs(a) == (a.nsamples \div a.channels) \div (a.sample_rate \div 1000)

TooLarge(a) == size_bytes(a) > WHISPER_MAX_FILE_SIZE_MB * 1024 * 1024

RejectedAs(t) ==
    /\ wpc = "done"
    /\ sttOutcome.kind = "raised"
    /\ sttOutcome.error.type = t

\* C35: a buffer shorter than the 100 ms minimum is rejected as too short, a
\* buffer larger than 25 MB as too large; here for buffers in the target
\* format, which are validated as they are.
C35_InvalidRejected ==
    (auto_normalize /\ wpc # "idle" /\ InTargetFormat(audio)) =>
        /\ ActualDurationMs(audio) < WHISPER_MIN_DURATION_MS
              => RejectedAs("AudioTooShortError")
        /\ (TooLarge(audio) /\ ActualDurationMs(audio) >= WHISPER_MIN_DURATION_MS)
              => RejectedAs("AudioTooLongError")

\* C36: the validation rules are applied before normalization too: an input
\* that violates a rule is rejected, also when it is not in the target format
\* and its normalized form passes.
C36_ValidatedBefore ==
    (auto_normalize /\ wpc # "idle"
        /\ validate_audio_for_whisper(audio).kind = "raise")
    => /\ wpc = "done"
       /\ sttOutcome.kind = "raised"

\* the word of t that ends just before position p
WordBefore(t, p) ==
    LET start == CHOOSE i \in 1..p :
                    /\ \A j \in i..(p - 1) : ~IsSpace(t[j])
                    /\ i = 1 \/ IsSpace(t[i - 1])
    IN  SubSeq(t, start, p - 1)

IsDecimalWord(w) ==
    \E d \in 2..(Len(w) - 1) :
        /\ w[d] = "."
        /\ \A j \in 1..Len(w) : j # d => IsDigit(w[j])

IsUrlWord(w) == StartsWithAt(Lower(w), 1, <<"w","w","w",".">>)

\* position p of t is the terminating dot of a sentence whose last word is a
\* decimal number or a URL, and a new sentence follows
DotAfterNumberOrUrl(t, p) ==
    /\ 1 < p /\ p + 2 <= Len(t)
    /\ t[p] = "." /\ ~IsSpace(t[p - 1])
    /\ IsSpace(t[p + 1]) /\ IsUpper(t[p + 2])
    /\ IsDecimalWord(WordBefore(t, p)) \/ IsUrlWord(WordBefore(t, p))

\* C37: a sentence that ends with a decimal number or a URL and its own
\* terminating dot, followed by whitespace and a capital, is emitted by the
\* chunker with the rules as a sentence of its own, ending at that dot.
C37_SplitAfterNumberOrUrl ==
    (kind = "fixed" /\ exhausted) =>
        \A p \in 1..Len(text) :
            DotAfterNumberOrUrl(text, p) =>
                \E k \in 1..Len(emitted) : EndsAt(emitted[k], text, p)

\* the sentences chunk_stream yields when the whole text arrives as one token
SingleTokenSentences(k, t, m) ==
    LET r == OnToken(k, <<>>, t, m)
    IN  r.out \o OnExhausted(r.buffer)

\* C38: the sentences emitted by chunk_stream depend only on the concatenation
\* of the tokens: however the text was cut into tokens, once the stream is
\* exhausted the emitted sentences are those of the text sent as one token.
C38_TokenizationIndependent ==
    exhausted => emitted = SingleTokenSentences(kind, text, minLen)

\* caller c is inside the locked section of an acquire call that asks for
\* more than the capacity
StuckOverCapacity(c) == lpc[c] = "sleeping" /\ lneed[c] > bucket_size

\* C39: an acquire call that asks for more than the capacity never returns:
\* no caller is ever back from such a call.  Once such a call is inside the
\* locked section it stays there with the lock held, and every caller queued
\* on the lock stays queued, whatever amount it asks for and whatever the
\* bucket holds.
C39_OverCapacityBlocks ==
    /\ [](\A c \in Callers : lpc[c] = "done" => lneed[c] <= bucket_size)
    /\ [][\A c \in Callers :
            StuckOverCapacity(c) =>
                /\ StuckOverCapacity(c)'
                /\ locked /\ locked'
                /\ \A d \in Callers :
                      lpc[d] = "waiting" => lpc'[d] = "waiting"]_vars

\* caller a, asking for more than the capacity, has slept to the end of the
\* clock with the lock; caller b waits on the lock for an amount the bucket
\* holds
C39_Witness ==
    /\ StuckOverCapacity("a")
    /\ locked
    /\ lpc["b"] = "waiting"
    /\ HasEnough(ltokens, lneed["b"])
    /\ last_update > 0
    /\ now = MaxTime

====
